---------------------------- MODULE Spec2Model ----------------------------
(***************************************************************************)
(* Page-replacement simulation engine (FIFO, LRU, Optimal) with undo        *)
(* history, as driven by the handlers of main.js.                          *)
(*                                                                         *)
(* JavaScript arrays are modelled as sequences.  Indices kept in the state *)
(* (pageIndex, fifoPointer, replacedFrameIndex) are the 0-based values of  *)
(* the source; the array helpers below translate to 1-based sequences.     *)
(***************************************************************************)
EXTENDS Integers, Sequences, FiniteSets, TLC

(***************************************************************************)
(* Bounds of the model.                                                    *)
(***************************************************************************)
\* longest page string typed into the form (number of comma separated tokens)
MaxLen == 4
\* largest page id of the enumerated page strings (pages 0..MaxPage)
MaxPage == 2

(***************************************************************************)
(* JavaScript values.  null and NaN are encoded as negative integers: the  *)
(* input alphabet below has no sign character, so every parsed page id and *)
(* frame count is >= 0 and cannot collide with them.                       *)
(***************************************************************************)
NULL == -1
NaN == -2

isNaN(x) == x = NaN

(***************************************************************************)
(* Array helpers (methods of Array.prototype), 0-based like the source.     *)
(***************************************************************************)
\* variant: the first element is not looked at
includes_skipFirst(arr, x) == \E i \in 2..Len(arr) : arr[i] = x

includes(arr, x) == \E i \in 1..Len(arr) : arr[i] = x

\* variant: the last index of x is given
indexOf_last(arr, x) ==
    IF \E i \in 1..Len(arr) : arr[i] = x
    THEN (CHOOSE i \in 1..Len(arr) :
              arr[i] = x /\ \A j \in (i + 1)..Len(arr) : arr[j] # x) - 1
    ELSE -1

\* first 0-based index of x, -1 when absent
indexOf(arr, x) ==
    IF includes(arr, x)
    THEN (CHOOSE i \in 1..Len(arr) : arr[i] = x /\ \A j \in 1..(i - 1) : arr[j] # x) - 1
    ELSE -1

\* arr.splice(i, 1): removes the element at 0-based index i
splice(arr, i) == SubSeq(arr, 1, i) \o SubSeq(arr, i + 2, Len(arr))

push(arr, x) == Append(arr, x)

\* arr.slice(from)
slice(arr, from) == SubSeq(arr, from + 1, Len(arr))

\* variant: the element after the indexed one is written
setAt_next(arr, i, x) ==
    IF i + 1 >= 0 /\ i + 1 < Len(arr) THEN [arr EXCEPT ![i + 2] = x] ELSE arr

\* arr[i] = x; an index outside the array (-1) only sets a property, which
\* neither changes an element nor survives the JSON deep copy
setAt(arr, i, x) ==
    IF i >= 0 /\ i < Len(arr) THEN [arr EXCEPT ![i + 1] = x] ELSE arr

\* new Array(n).fill(null)
emptyFrames(n) == [i \in 1..n |-> NULL]

(***************************************************************************)
(* Text input.  A text is a sequence of one-character strings.             *)
(***************************************************************************)
Digits == <<"0", "1", "2", "3", "4", "5", "6", "7", "8", "9">>

isDigit(c) == \E i \in 1..Len(Digits) : Digits[i] = c

digitValue(c) == (CHOOSE i \in 1..Len(Digits) : Digits[i] = c) - 1

RECURSIVE trimStart(_)
trimStart(s) ==
    IF s # <<>> /\ Head(s) = " " THEN trimStart(Tail(s)) ELSE s

RECURSIVE trimEnd(_)
trimEnd(s) ==
    IF s # <<>> /\ s[Len(s)] = " " THEN trimEnd(SubSeq(s, 1, Len(s) - 1)) ELSE s

\* String.prototype.trim
trim(s) == trimEnd(trimStart(s))

\* value of the longest prefix of digits of s, acc being the value read so far
RECURSIVE parseDigits(_, _)
parseDigits(s, acc) ==
    IF s # <<>> /\ isDigit(Head(s))
    THEN parseDigits(Tail(s), acc * Len(Digits) + digitValue(Head(s)))
    ELSE acc

\* parseInt(s): leading white space is skipped, the longest prefix of digits
\* is read and what follows it is ignored; NaN when there is no digit
parseInt(s) ==
    LET t == trimStart(s)
    IN  IF t # <<>> /\ isDigit(Head(t)) THEN parseDigits(t, 0) ELSE NaN

\* pgStrRaw.split(',').map(trim).filter(length > 0).map(parseInt), the raw
\* text being given as the sequence of its comma separated pieces
parsePageString(raw) ==
    LET trimmed == [i \in 1..Len(raw) |-> trim(raw[i])]
        kept == SelectSeq(trimmed, LAMBDA s : Len(s) > 0)
    IN  [i \in 1..Len(kept) |-> parseInt(kept[i])]

\* variant: the upper limit of the frame count is not checked
validFrames_noUpperLimit(numFrames) == ~(isNaN(numFrames) \/ numFrames < 1)

\* variant: an empty page string is let through
validPageString_emptyAllowed(pageString) ==
    ~(\E i \in 1..Len(pageString) : isNaN(pageString[i]))

\* the checks of handleStart
validFrames(numFrames) == ~(isNaN(numFrames) \/ numFrames < 1 \/ numFrames > 8)

validPageString(pageString) ==
    ~((\E i \in 1..Len(pageString) : isNaN(pageString[i])) \/ Len(pageString) = 0)

(***************************************************************************)
(* algorithms.js: one step of each policy on a copy of the state.          *)
(* A state is the record                                                   *)
(*   [frames, pageIndex, stats : [pageFaults, pageHits], fifoPointer,      *)
(*    lruQueue, lastEvent]                                                 *)
(* (coords, the drawing coordinates, are left out).                        *)
(***************************************************************************)
hitEvent(currentPage) ==
    [type |-> "HIT", page |-> currentPage, replaced |-> NULL, replacedFrameIndex |-> -1]

faultEvent(currentPage, victimPage, victimIndex) ==
    [type |-> "FAULT", page |-> currentPage, replaced |-> victimPage,
     replacedFrameIndex |-> victimIndex]

\* variant: the pointer advances without wrapping around
fifoAdvance_noWrap(fifoPointer, length) == fifoPointer + 1

\* variant: the pointer never moves
fifoAdvance_stuck(fifoPointer, length) == fifoPointer

\* state.fifoPointer = (state.fifoPointer + 1) % state.frames.length
fifoAdvance(fifoPointer, length) == (fifoPointer + 1) % length

\* variant: a hit moves the pointer too
fifoStep_hitAdvances(state, currentPage) ==
    IF includes(state.frames, currentPage)
    THEN [state EXCEPT !.stats.pageHits = @ + 1,
                       !.fifoPointer = fifoAdvance(@, Len(state.frames)),
                       !.lastEvent = hitEvent(currentPage)]
    ELSE LET victimIndex == state.fifoPointer
             victimPage == state.frames[victimIndex + 1]
         IN  [state EXCEPT !.stats.pageFaults = @ + 1,
                           !.frames = setAt(@, victimIndex, currentPage),
                           !.fifoPointer = fifoAdvance(@, Len(state.frames)),
                           !.lastEvent = faultEvent(currentPage, victimPage, victimIndex)]

fifoStep(state, currentPage) ==
    IF includes(state.frames, currentPage)
    THEN [state EXCEPT !.stats.pageHits = @ + 1,
                       !.lastEvent = hitEvent(currentPage)]
    ELSE LET victimIndex == state.fifoPointer
             victimPage == state.frames[victimIndex + 1]
         IN  [state EXCEPT !.stats.pageFaults = @ + 1,
                           !.frames = setAt(@, victimIndex, currentPage),
                           !.fifoPointer = fifoAdvance(@, Len(state.frames)),
                           !.lastEvent = faultEvent(currentPage, victimPage, victimIndex)]

\* variant: the page is pushed without removing its earlier entry
lruTouch_pushOnly(lruQueue, currentPage) == push(lruQueue, currentPage)

\* variant: a page already in the queue keeps its place
lruTouch_keepPlace(lruQueue, currentPage) ==
    IF includes(lruQueue, currentPage) THEN lruQueue ELSE push(lruQueue, currentPage)

\* step 1 of lruStep: the page is removed from the queue if present and
\* pushed at the most recently used end
lruTouch(lruQueue, currentPage) ==
    LET existingIndex == indexOf(lruQueue, currentPage)
    IN  push(IF existingIndex > -1 THEN splice(lruQueue, existingIndex) ELSE lruQueue,
             currentPage)

\* variant: the last element of lruQueue that is in frames (the most recently
\* used resident page)
lruVictim_mostRecent(lruQueue, frames) ==
    IF \E i \in 1..Len(lruQueue) : includes(frames, lruQueue[i])
    THEN lruQueue[CHOOSE i \in 1..Len(lruQueue) :
                      /\ includes(frames, lruQueue[i])
                      /\ \A j \in (i + 1)..Len(lruQueue) : ~includes(frames, lruQueue[j])]
    ELSE NULL

\* variant: the page of the first slot is taken, whatever the queue says
lruVictim_firstFrame(lruQueue, frames) == frames[1]

\* the loop of lruStep: the first element of lruQueue that is in frames,
\* null when there is none
lruVictim(lruQueue, frames) ==
    IF \E i \in 1..Len(lruQueue) : includes(frames, lruQueue[i])
    THEN lruQueue[CHOOSE i \in 1..Len(lruQueue) :
                      /\ includes(frames, lruQueue[i])
                      /\ \A j \in 1..(i - 1) : ~includes(frames, lruQueue[j])]
    ELSE NULL

lruStep(state, currentPage) ==
    LET touched == lruTouch(state.lruQueue, currentPage)
    IN  IF includes(state.frames, currentPage)
        THEN [state EXCEPT !.lruQueue = touched,
                           !.stats.pageHits = @ + 1,
                           !.lastEvent = hitEvent(currentPage)]
        ELSE IF includes(state.frames, NULL)
        THEN LET victimIndex == indexOf(state.frames, NULL)
             IN  [state EXCEPT !.lruQueue = touched,
                               !.stats.pageFaults = @ + 1,
                               !.frames = setAt(@, victimIndex, currentPage),
                               !.lastEvent = faultEvent(currentPage, NULL, victimIndex)]
        ELSE LET victimPage == lruVictim(touched, state.frames)
                 victimIndex == indexOf(state.frames, victimPage)
                 lruVictimIndex == indexOf(touched, victimPage)
             IN  [state EXCEPT !.lruQueue = IF lruVictimIndex > -1
                                             THEN splice(touched, lruVictimIndex)
                                             ELSE touched,
                               !.stats.pageFaults = @ + 1,
                               !.frames = setAt(@, victimIndex, currentPage),
                               !.lastEvent = faultEvent(currentPage, victimPage, victimIndex)]

\* the loop of optimalStep from slot i on; maxFutureIndex, victimIndex and
\* victimPage are the loop's variables
RECURSIVE optimalScan(_, _, _, _, _, _)
optimalScan(frames, futureString, i, maxFutureIndex, victimIndex, victimPage) ==
    IF i >= Len(frames)
    THEN [victimIndex |-> victimIndex, victimPage |-> victimPage]
    ELSE LET framePage == frames[i + 1]
             futureUseIndex == indexOf(futureString, framePage)
         IN  IF futureUseIndex = -1
             THEN [victimIndex |-> i, victimPage |-> framePage]
             ELSE IF futureUseIndex > maxFutureIndex
             THEN optimalScan(frames, futureString, i + 1, futureUseIndex, i, framePage)
             ELSE optimalScan(frames, futureString, i + 1, maxFutureIndex,
                              victimIndex, victimPage)

\* variant: the scan does not stop at the first page that is never used
\* again, so that the last such page is taken
optimalVictim_lastNeverUsed(frames, futureString) ==
    LET dead == {i \in 0..(Len(frames) - 1) : indexOf(futureString, frames[i + 1]) = -1}
    IN  IF dead # {}
        THEN LET i == CHOOSE x \in dead : \A y \in dead : y <= x
             IN  [victimIndex |-> i, victimPage |-> frames[i + 1]]
        ELSE optimalScan(frames, futureString, 0, -1, -1, NULL)

\* variant: the comparison is reversed, so that the page used soonest is
\* taken (slot 0 when no resident page is used again)
optimalVictim_soonest(frames, futureString) ==
    LET used == {i \in 0..(Len(frames) - 1) : indexOf(futureString, frames[i + 1]) > -1}
    IN  IF used # {}
        THEN LET i == CHOOSE x \in used : \A y \in used :
                          indexOf(futureString, frames[x + 1])
                              <= indexOf(futureString, frames[y + 1])
             IN  [victimIndex |-> i, victimPage |-> frames[i + 1]]
        ELSE [victimIndex |-> 0, victimPage |-> frames[1]]

\* the victim of optimalStep when the frames are full
optimalVictim(frames, futureString) ==
    optimalScan(frames, futureString, 0, -1, -1, NULL)

optimalStep(state, currentPage, futureString) ==
    IF includes(state.frames, currentPage)
    THEN [state EXCEPT !.stats.pageHits = @ + 1,
                       !.lastEvent = hitEvent(currentPage)]
    ELSE LET victim == IF includes(state.frames, NULL)
                       THEN [victimIndex |-> indexOf(state.frames, NULL),
                             victimPage |-> NULL]
                       ELSE optimalVictim(state.frames, futureString)
         IN  [state EXCEPT !.stats.pageFaults = @ + 1,
                           !.frames = setAt(@, victim.victimIndex, currentPage),
                           !.lastEvent = faultEvent(currentPage, victim.victimPage,
                                                    victim.victimIndex)]

(***************************************************************************)
(* simulation.js: SimulationController.  A controller is the record        *)
(*   [algorithm, numFrames, pageString, stateHistory, currentState,        *)
(*    isFinished, sharedWith].                                             *)
(* currentState and the elements of stateHistory are references to         *)
(* objects.  The record holds the value of each, and sharedWith holds the  *)
(* (1-based) places of stateHistory that refer to the very object          *)
(* currentState refers to: a write into that object is seen through each   *)
(* of them.                                                                *)
(***************************************************************************)
\* JSON.parse(JSON.stringify(x)): a new object with the value of x (a state
\* holds numbers, nulls, strings and arrays and objects of them, all of
\* which the round trip keeps)
deepCopy(x) == x

\* this.currentState.f = ...: a write into the object currentState refers
\* to, state being the object's new value
assignInPlace(this, state) ==
    [this EXCEPT !.currentState = state,
                 !.stateHistory = [i \in 1..Len(@) |->
                                      IF i \in this.sharedWith THEN state ELSE @[i]]]

\* this.currentState = object, for an object that no place of the history
\* refers to
assignFresh(this, state) ==
    [this EXCEPT !.currentState = state, !.sharedWith = {}]

startEvent == [type |-> "START", page |-> NULL, replaced |-> NULL]

doneEvent == [type |-> "DONE", page |-> NULL, replaced |-> NULL]

\* the state built by initState
initState(numFrames) ==
    [frames |-> emptyFrames(numFrames),
     pageIndex |-> 0,
     stats |-> [pageFaults |-> 0, pageHits |-> 0],
     fifoPointer |-> 0,
     lruQueue |-> <<>>,
     lastEvent |-> startEvent]

\* variant: the current state itself is pushed, not a copy of it
recordState_noCopy(this) ==
    [this EXCEPT !.stateHistory = push(@, this.currentState),
                 !.sharedWith = @ \cup {Len(this.stateHistory) + 1}]

\* pushes a deep copy of the current state onto the history
recordState(this) ==
    [this EXCEPT !.stateHistory = push(@, deepCopy(this.currentState))]

\* variant: the constructor does not record the initial state
SimulationController_noRecord(algo, numFr, pgStr) ==
    [algorithm |-> algo,
     numFrames |-> numFr,
     pageString |-> pgStr,
     stateHistory |-> <<>>,
     currentState |-> initState(numFr),
     isFinished |-> FALSE,
     sharedWith |-> {}]

\* new SimulationController(canvas, algo, numFr, pgStr)
SimulationController(algo, numFr, pgStr) ==
    recordState([algorithm |-> algo,
                 numFrames |-> numFr,
                 pageString |-> pgStr,
                 stateHistory |-> <<>>,
                 currentState |-> initState(numFr),
                 isFinished |-> FALSE,
                 sharedWith |-> {}])

\* variant: the first page is read at every step
currentPageOf_first(this) == this.pageString[1]

\* const currentPage = this.pageString[this.currentState.pageIndex]
currentPageOf(this) == this.pageString[this.currentState.pageIndex + 1]

\* the switch of stepForward on this.algorithm
algorithmStep(this, stateToProcess, currentPage) ==
    CASE this.algorithm = "fifo" -> fifoStep(stateToProcess, currentPage)
      [] this.algorithm = "lru" -> lruStep(stateToProcess, currentPage)
      [] this.algorithm = "optimal" ->
            LET futureString == slice(this.pageString, this.currentState.pageIndex + 1)
            IN  optimalStep(stateToProcess, currentPage, futureString)

\* variant: the step that emits Done also counts as a fault
stepForwardUnfinished_doneCounts(this) ==
    IF this.currentState.pageIndex >= Len(this.pageString)
    THEN recordState(assignInPlace([this EXCEPT !.isFinished = TRUE],
                                   [this.currentState EXCEPT !.lastEvent = doneEvent,
                                                             !.stats.pageFaults = @ + 1]))
    ELSE LET stateToProcess == deepCopy(this.currentState)
             result == algorithmStep(this, stateToProcess, currentPageOf(this))
         IN  recordState(assignFresh(this, [result EXCEPT !.pageIndex = @ + 1]))

\* variant: the step that processes the last reference marks the engine
\* finished at once
stepForwardUnfinished_finishAtEnd(this) ==
    IF this.currentState.pageIndex >= Len(this.pageString)
    THEN recordState(assignInPlace([this EXCEPT !.isFinished = TRUE],
                                   [this.currentState EXCEPT !.lastEvent = doneEvent]))
    ELSE LET stateToProcess == deepCopy(this.currentState)
             result == algorithmStep(this, stateToProcess, currentPageOf(this))
         IN  recordState(assignFresh(
                 [this EXCEPT !.isFinished =
                                  this.currentState.pageIndex + 1 >= Len(this.pageString)],
                 [result EXCEPT !.pageIndex = @ + 1]))

\* stepForward past its first line (the engine is not finished): the Done
\* branch writes lastEvent into the current state object; the other branch
\* lets the policy work on a deep copy, which becomes the current state
stepForwardUnfinished(this) ==
    IF this.currentState.pageIndex >= Len(this.pageString)
    THEN recordState(assignInPlace([this EXCEPT !.isFinished = TRUE],
                                   [this.currentState EXCEPT !.lastEvent = doneEvent]))
    ELSE LET stateToProcess == deepCopy(this.currentState)
             result == algorithmStep(this, stateToProcess, currentPageOf(this))
         IN  recordState(assignFresh(this, [result EXCEPT !.pageIndex = @ + 1]))

\* variant: the check of isFinished is missing
stepForward_noGuard(this) == stepForwardUnfinished(this)

stepForward(this) ==
    IF this.isFinished THEN this ELSE stepForwardUnfinished(this)

\* the value of a call without return value
Undefined == "undefined"

\* what a call of stepForward hands to its caller: every path ends in a bare
\* return or at the end of the body, and nothing is thrown
stepForwardReturn(this) ==
    IF this.isFinished THEN Undefined ELSE Undefined

\* variant: the history is popped and the current state is not restored
stepBackward_noRestore(this) ==
    IF Len(this.stateHistory) > 1
    THEN [this EXCEPT !.stateHistory = SubSeq(@, 1, Len(@) - 1),
                      !.sharedWith = @ \cap (1..(Len(this.stateHistory) - 1)),
                      !.isFinished = FALSE]
    ELSE this

\* variant: the frames of the undone state are kept
stepBackward_keepFrames(this) ==
    IF Len(this.stateHistory) > 1
    THEN LET popped == SubSeq(this.stateHistory, 1, Len(this.stateHistory) - 1)
             prevState == popped[Len(popped)]
         IN  assignFresh([this EXCEPT !.stateHistory = popped,
                                      !.isFinished = FALSE],
                         [prevState EXCEPT !.frames = this.currentState.frames])
    ELSE this

\* variant: the counters of the undone state are kept
stepBackward_keepStats(this) ==
    IF Len(this.stateHistory) > 1
    THEN LET popped == SubSeq(this.stateHistory, 1, Len(this.stateHistory) - 1)
             prevState == popped[Len(popped)]
         IN  assignFresh([this EXCEPT !.stateHistory = popped,
                                      !.isFinished = FALSE],
                         [prevState EXCEPT !.stats = this.currentState.stats])
    ELSE this

\* variant: the current state becomes the previous snapshot itself, not a
\* copy of it
stepBackward_noCopy(this) ==
    IF Len(this.stateHistory) > 1
    THEN LET popped == SubSeq(this.stateHistory, 1, Len(this.stateHistory) - 1)
             prevState == popped[Len(popped)]
         IN  [this EXCEPT !.stateHistory = popped,
                          !.currentState = prevState,
                          !.sharedWith = {Len(popped)},
                          !.isFinished = FALSE]
    ELSE this

\* variant: the finished flag is not cleared
stepBackward_keepFinished(this) ==
    IF Len(this.stateHistory) > 1
    THEN LET popped == SubSeq(this.stateHistory, 1, Len(this.stateHistory) - 1)
             prevState == popped[Len(popped)]
         IN  assignFresh([this EXCEPT !.stateHistory = popped], deepCopy(prevState))
    ELSE this

\* variant: the initial snapshot is popped too
stepBackward_popInitial(this) ==
    IF Len(this.stateHistory) > 0
    THEN LET popped == SubSeq(this.stateHistory, 1, Len(this.stateHistory) - 1)
         IN  assignFresh([this EXCEPT !.stateHistory = popped,
                                      !.isFinished = FALSE],
                         IF popped # <<>> THEN deepCopy(popped[Len(popped)])
                                          ELSE this.currentState)
    ELSE this

stepBackward(this) ==
    IF Len(this.stateHistory) > 1
    THEN LET popped == SubSeq(this.stateHistory, 1, Len(this.stateHistory) - 1)
             prevState == popped[Len(popped)]
         IN  assignFresh([this EXCEPT !.stateHistory = popped,
                                      !.isFinished = FALSE],
                         deepCopy(prevState))
    ELSE this

(***************************************************************************)
(* main.js: the page's state and its handlers.                             *)
(***************************************************************************)
VARIABLES
    sim,        \* the SimulationController, NoSim while there is none (null)
    isPlaying   \* whether the animation loop steps the simulation

vars == <<sim, isPlaying>>

NoSim == [null |-> TRUE]

\* the options of the algorithm select
Algorithms == {"fifo", "lru", "optimal"}

\* the comma separated pieces a page string is typed from
RawTokens ==
    {<<Digits[p + 1]>> : p \in 0..MaxPage} \cup {<<" ">>, <<"x">>, <<" ", "1", "x">>}

\* the reference cases of the specification's examples
TextbookRaw == <<<<"7">>, <<"0">>, <<"1">>, <<"2">>, <<"0">>, <<"3">>, <<"0">>, <<"4">>>>

ThrashRaw == <<<<"1">>, <<"2">>, <<"3">>>>

\* a page string in which, with two frames, a fault meets frames whose
\* pages are all referenced again
RecurRaw == <<<<"0">>, <<"1">>, <<"2">>, <<"0">>, <<"1">>>>

\* the values of the page string input
RawPageStrings ==
    UNION {[1..n -> RawTokens] : n \in 0..MaxLen} \cup {TextbookRaw, ThrashRaw, RecurRaw}

\* the values of the number of frames input
RawFrameCounts ==
    {<<"0">>, <<"1">>, <<"2">>, <<"3">>, <<"9">>, <<>>, <<"2", ".", "5">>}

Init ==
    /\ sim = NoSim
    /\ isPlaying = FALSE

\* the Start button lies in the setup panel, which is shown exactly while
\* there is no simulation (hidden by handleStart, shown again by handleReset)
\* steps 1 and 2 of handleStart: the simulation created from the inputs,
\* NoSim when a check fails and the handler returns after its alert
startSimulation(algo, numFrRaw, pgStrRaw) ==
    LET numFrames == parseInt(numFrRaw)
        pageString == parsePageString(pgStrRaw)
    IN  IF ~validFrames(numFrames) \/ ~validPageString(pageString)
        THEN NoSim
        ELSE SimulationController(algo, numFrames, pageString)

handleStart ==
    /\ sim = NoSim
    /\ \E algo \in Algorithms, numFrRaw \in RawFrameCounts, pgStrRaw \in RawPageStrings :
          LET created == startSimulation(algo, numFrRaw, pgStrRaw)
          IN  IF created = NoSim
              THEN UNCHANGED vars
              ELSE /\ sim' = created
                   /\ isPlaying' = FALSE

handleReset ==
    /\ sim' = NoSim
    /\ isPlaying' = FALSE

\* the controls below lie in the animation panel, shown while there is a
\* simulation
handlePlay ==
    /\ sim # NoSim
    /\ isPlaying' = TRUE
    /\ UNCHANGED sim

handlePause ==
    /\ sim # NoSim
    /\ isPlaying' = FALSE
    /\ UNCHANGED sim

handleStepForward ==
    /\ sim # NoSim
    /\ ~sim.isFinished
    /\ sim' = stepForward(sim)
    /\ UNCHANGED isPlaying

handleStepBackward ==
    /\ sim # NoSim
    /\ sim' = stepBackward(sim)
    /\ UNCHANGED isPlaying

\* variant: the loop steps forward without looking at isFinished, and never
\* turns playing off
anmLoop_noFinishedCheck ==
    /\ sim # NoSim
    /\ isPlaying
    /\ sim' = stepForward(sim)
    /\ UNCHANGED isPlaying

\* one animation frame whose delay has elapsed while playing
anmLoop ==
    /\ sim # NoSim
    /\ isPlaying
    /\ IF sim.isFinished
       THEN /\ isPlaying' = FALSE
            /\ UNCHANGED sim
       ELSE /\ sim' = stepForward(sim)
            /\ UNCHANGED isPlaying

Next ==
    \/ handleStart
    \/ handleReset
    \/ handlePlay
    \/ handlePause
    \/ handleStepForward
    \/ handleStepBackward
    \/ anmLoop

Spec == Init /\ [][Next]_vars

\* auto-play without other user action: the user acts only while playing is
\* off (Pause has nothing to turn off then), and while it is on the only
\* steps are those of the animation loop
AutoPlayNext ==
    \/ (~isPlaying /\ handleStart)
    \/ (~isPlaying /\ handleReset)
    \/ (~isPlaying /\ handlePlay)
    \/ (~isPlaying /\ handleStepForward)
    \/ (~isPlaying /\ handleStepBackward)
    \/ anmLoop

\* anmLoop asks for the next animation frame at the end of every call, and
\* the delay of a step elapses after finitely many frames: a step of the
\* loop that is due is taken
AutoPlaySpec == Init /\ [][AutoPlayNext]_vars /\ WF_vars(anmLoop)

\* the condition of x ? a : b on a number or null: null, 0 and NaN count as
\* false
truthy(x) == x # NULL /\ x # 0 /\ ~isNaN(x)

\* the event status text set by updateUI, as the template it is built from,
\* the page it names and the page of its "(Replaced ...)" part, NULL when
\* the text has no such part
eventStatus(lastEvent) ==
    CASE lastEvent.type = "START" ->
            [text |-> "Simulation started.", page |-> NULL, replaced |-> NULL]
      [] lastEvent.type = "HIT" ->
            [text |-> "Page ${page} HIT", page |-> lastEvent.page, replaced |-> NULL]
      [] lastEvent.type = "FAULT" ->
            IF truthy(lastEvent.replaced)
            THEN [text |-> "Page ${page} FAULT (Replaced ${replaced})",
                  page |-> lastEvent.page, replaced |-> lastEvent.replaced]
            ELSE [text |-> "Page ${page} FAULT",
                  page |-> lastEvent.page, replaced |-> NULL]
      [] lastEvent.type = "DONE" ->
            [text |-> "Simulation Complete!", page |-> NULL, replaced |-> NULL]

(***************************************************************************)
(* Properties.                                                             *)
(***************************************************************************)
\* the current state of the configured engine and parts of it
cur == sim.currentState

hits == cur.stats.pageHits

faults == cur.stats.pageFaults

\* every reference has been processed
RunComplete == cur.pageIndex = Len(sim.pageString)

\* the pages held by the frames
Resident(frames) == {frames[i] : i \in 1..Len(frames)} \ {NULL}

\* frames, cursor, policy state and counters of a state
Core(state) ==
    <<state.frames, state.pageIndex, state.fifoPointer, state.lruQueue, state.stats>>

SetMin(S) == CHOOSE x \in S : \A y \in S : x <= y

\* C1: in every reachable engine state, under every policy, pageHits +
\* pageFaults equals the cursor pageIndex.
C1_HitsPlusFaultsIsCursor ==
    sim # NoSim => hits + faults = cur.pageIndex

\* a finished run that saw hits, faults and evictions
C1_Witness ==
    /\ sim # NoSim
    /\ sim.isFinished
    /\ hits > 0
    /\ faults > sim.numFrames

\* C2: whenever the engine is not Finished, stepForward followed by
\* stepBackward leaves frames, cursor, FIFO pointer, LRU queue and the
\* counters as they were (the stepForward that only emits Done included).
C2_ForwardThenBackwardRestores ==
    (sim # NoSim /\ ~sim.isFinished) =>
        Core(stepBackward(stepForward(sim)).currentState) = Core(cur)

\* the run is complete after evictions and Done has not been emitted: the
\* next stepForward only emits Done
C2_Witness ==
    /\ sim # NoSim
    /\ ~sim.isFinished
    /\ RunComplete
    /\ faults > sim.numFrames
    /\ stepForward(sim).currentState.lastEvent = doneEvent

\* C3: under FIFO the pointer stays in 0..frameCount-1 and equals pageFaults
\* mod frameCount; a step that hits leaves it unchanged, a step that faults
\* replaces the slot at the pointer and advances it by one modulo frameCount.
C3_FifoRoundRobin ==
    (sim # NoSim /\ sim.algorithm = "fifo") =>
        /\ 0 <= cur.fifoPointer
        /\ cur.fifoPointer < sim.numFrames
        /\ cur.fifoPointer = faults % sim.numFrames
        /\ ~RunComplete =>
              LET page == currentPageOf(sim)
                  next == stepForward(sim).currentState
              IN  IF includes(cur.frames, page)
                  THEN /\ next.lastEvent.type = "HIT"
                       /\ next.fifoPointer = cur.fifoPointer
                       /\ next.frames = cur.frames
                  ELSE /\ next.lastEvent.type = "FAULT"
                       /\ next.lastEvent.replacedFrameIndex = cur.fifoPointer
                       /\ next.frames = setAt(cur.frames, cur.fifoPointer, page)
                       /\ next.fifoPointer = (cur.fifoPointer + 1) % sim.numFrames

\* a FIFO run over several frames whose pointer has wrapped around, with a
\* hit in between
C3_Witness ==
    /\ sim # NoSim
    /\ sim.algorithm = "fifo"
    /\ sim.numFrames > 1
    /\ faults > sim.numFrames
    /\ hits > 0

\* C4: under LRU the recency sequence holds exactly the resident pages, each
\* exactly once.
C4_LruQueueIsResidentSet ==
    (sim # NoSim /\ sim.algorithm = "lru") =>
        /\ \A i, j \in 1..Len(cur.lruQueue) :
              i # j => cur.lruQueue[i] # cur.lruQueue[j]
        /\ {cur.lruQueue[i] : i \in 1..Len(cur.lruQueue)} = Resident(cur.frames)

\* an LRU run with full frames after evictions and hits
C4_Witness ==
    /\ sim # NoSim
    /\ sim.algorithm = "lru"
    /\ sim.numFrames > 1
    /\ faults > sim.numFrames
    /\ hits > 0
    /\ Len(cur.lruQueue) = sim.numFrames

\* the slots of full frames whose page does not occur in futureString
NeverAgain(frames, futureString) ==
    {i \in 0..(Len(frames) - 1) : ~includes(futureString, frames[i + 1])}

\* C5: on an Optimal fault with all slots full, if some resident page does
\* not occur in the references after the current one, the victim is the
\* never-recurring page in the lowest slot.
C5_OptimalEvictsNeverRecurring ==
    (sim # NoSim /\ sim.algorithm = "optimal" /\ ~RunComplete) =>
        LET page == currentPageOf(sim)
            futureString == slice(sim.pageString, cur.pageIndex + 1)
            dead == NeverAgain(cur.frames, futureString)
        IN  (/\ ~includes(cur.frames, page)
             /\ ~includes(cur.frames, NULL)
             /\ dead # {}) =>
                LET event == stepForward(sim).currentState.lastEvent
                IN  /\ event.type = "FAULT"
                    /\ event.replacedFrameIndex = SetMin(dead)
                    /\ event.replaced = cur.frames[SetMin(dead) + 1]
                    /\ ~includes(futureString, event.replaced)

\* an Optimal fault has just evicted a never-recurring page from a slot
\* above slot 0 while the page of slot 0 occurs again
C5_Witness ==
    /\ sim # NoSim
    /\ sim.algorithm = "optimal"
    /\ cur.lastEvent.type = "FAULT"
    /\ cur.lastEvent.replaced # NULL
    /\ cur.lastEvent.replacedFrameIndex > 0
    /\ ~includes(slice(sim.pageString, cur.pageIndex), cur.lastEvent.replaced)
    /\ includes(slice(sim.pageString, cur.pageIndex), cur.frames[1])

\* the number of Done snapshots in a history
DoneCount(stateHistory) ==
    Cardinality({i \in 1..Len(stateHistory) : stateHistory[i].lastEvent.type = "DONE"})

\* C6: once the engine is Finished a further stepForward changes nothing,
\* and the history never holds more than one Done snapshot.
C6_DoneOnce ==
    sim # NoSim =>
        /\ sim.isFinished => stepForward(sim) = sim
        /\ DoneCount(sim.stateHistory) <= 1

\* Done has been emitted
C6_Witness ==
    /\ sim # NoSim
    /\ sim.isFinished
    /\ cur.lastEvent = doneEvent
    /\ DoneCount(sim.stateHistory) = 1

\* the engine runs the textbook case under algo: 3 frames, references
\* 7,0,1,2,0,3,0,4, every reference processed
TextbookDone(algo) ==
    /\ sim # NoSim
    /\ sim.algorithm = algo
    /\ sim.numFrames = 3
    /\ sim.pageString = <<7, 0, 1, 2, 0, 3, 0, 4>>
    /\ RunComplete

\* the engine runs the single-frame case: 1 frame, references 1,2,3, every
\* reference processed
ThrashDone ==
    /\ sim # NoSim
    /\ sim.numFrames = 1
    /\ sim.pageString = <<1, 2, 3>>
    /\ RunComplete

\* C7 as stated: the complete FIFO run of the textbook case ends with 6
\* faults and 2 hits.
C7_FifoTextbookAsStated ==
    TextbookDone("fifo") => (faults = 6 /\ hits = 2)

\* C7 as amended: the complete FIFO run of the textbook case ends with 7
\* faults and 1 hit.
C7_FifoTextbook ==
    TextbookDone("fifo") => (faults = 7 /\ hits = 1)

C7_Witness ==
    TextbookDone("fifo") /\ sim.isFinished /\ cur.frames = <<4, 3, 0>>

\* C8 as stated: the complete LRU run of the textbook case ends with 7
\* faults and 1 hit.
C8_LruTextbookAsStated ==
    TextbookDone("lru") => (faults = 7 /\ hits = 1)

\* C8 as amended: the complete LRU run of the textbook case ends with 6
\* faults and 2 hits.
C8_LruTextbook ==
    TextbookDone("lru") => (faults = 6 /\ hits = 2)

C8_Witness ==
    TextbookDone("lru") /\ sim.isFinished /\ cur.lruQueue = <<3, 0, 4>>

\* C9 as stated: the complete Optimal run of the textbook case ends with 5
\* faults and 3 hits.
C9_OptimalTextbookAsStated ==
    TextbookDone("optimal") => (faults = 5 /\ hits = 3)

\* C9 as amended: the complete Optimal run of the textbook case ends with 6
\* faults and 2 hits.
C9_OptimalTextbook ==
    TextbookDone("optimal") => (faults = 6 /\ hits = 2)

C9_Witness ==
    TextbookDone("optimal") /\ sim.isFinished /\ cur.frames = <<4, 0, 1>>

\* C10: with 1 frame and references 1,2,3 the complete run of every policy
\* ends with 3 faults and 0 hits.
C10_SingleFrameThrash ==
    ThrashDone => (faults = 3 /\ hits = 0)

C10_Witness ==
    ThrashDone /\ sim.isFinished /\ sim.algorithm = "optimal" /\ cur.frames = <<3>>

\* the step from the current state to the next one keeps an engine (it is
\* neither a setup nor a reset)
EngineStep == sim # NoSim /\ sim' # NoSim

\* C11 as stated: no operation other than a setup or a reset makes pageHits
\* or pageFaults smaller than it was.
C11_CountersNeverDecreaseAsStated ==
    [][EngineStep =>
          /\ sim'.currentState.stats.pageHits >= hits
          /\ sim'.currentState.stats.pageFaults >= faults]_vars

\* C11 as amended: a step that does not shorten the history (a stepForward)
\* makes neither counter smaller; a step that pops a snapshot (a
\* stepBackward) sets the counters to those of the snapshot below the popped
\* one, which are the current ones or the current ones with one of them
\* decreased by one.
C11_CountersDecreaseOnlyByUndo ==
    [][EngineStep =>
          IF Len(sim'.stateHistory) >= Len(sim.stateHistory)
          THEN /\ sim'.currentState.stats.pageHits >= hits
               /\ sim'.currentState.stats.pageFaults >= faults
          ELSE LET below == sim.stateHistory[Len(sim.stateHistory) - 1].stats
                   restored == sim'.currentState.stats
               IN  /\ restored = below
                   /\ restored.pageHits \in {hits - 1, hits}
                   /\ restored.pageFaults \in {faults - 1, faults}
                   /\ restored.pageHits + restored.pageFaults >= hits + faults - 1]_vars

\* an unfinished run with history to undo whose counters have both grown
C11_Witness ==
    /\ sim # NoSim
    /\ ~sim.isFinished
    /\ Len(sim.stateHistory) > 2
    /\ hits > 0
    /\ faults > 0

\* C12: a snapshot of the history keeps its frames, cursor, policy state,
\* event and statistics for as long as it stays in the history: every step of
\* an engine leaves each place of the history that it does not pop as it was.
C12_SnapshotsImmutable ==
    [][EngineStep =>
          \A i \in 1..Len(sim.stateHistory) :
              i <= Len(sim'.stateHistory) => sim'.stateHistory[i] = sim.stateHistory[i]]_vars

\* Done has been written into the current state and recorded, and the
\* snapshot below it still carries the event of the last reference
C12_Witness ==
    /\ sim # NoSim
    /\ sim.isFinished
    /\ Len(sim.stateHistory) > 3
    /\ sim.stateHistory[Len(sim.stateHistory)].lastEvent = doneEvent
    /\ sim.stateHistory[Len(sim.stateHistory) - 1].lastEvent.type \in {"HIT", "FAULT"}
    /\ sim.sharedWith = {}

\* the step is a stepForward that processes a reference
ReferenceStep == EngineStep /\ sim'.currentState.pageIndex = cur.pageIndex + 1

\* the step pops a snapshot (a stepBackward with history to undo)
PopStep == EngineStep /\ Len(sim'.stateHistory) < Len(sim.stateHistory)

\* C13 as stated: the stepForward that processes the last reference, moving
\* the cursor to the end, marks the engine Finished in that same call.
C13_FinishedWithLastReferenceAsStated ==
    [][(ReferenceStep /\ sim'.currentState.pageIndex = Len(sim.pageString))
          => sim'.isFinished]_vars

\* C13 as amended: a stepForward that processes a reference, the last one
\* included, leaves the engine not Finished; with the cursor at the end, the
\* next stepForward marks it Finished, emitting Done and leaving the cursor.
C13_FinishedByNextStep ==
    [][/\ ReferenceStep => ~sim'.isFinished
       /\ (EngineStep /\ ~sim.isFinished /\ sim'.isFinished) =>
             /\ RunComplete
             /\ sim'.currentState.pageIndex = cur.pageIndex
             /\ sim'.currentState.lastEvent = doneEvent
       /\ (EngineStep /\ RunComplete /\ ~sim.isFinished
             /\ Len(sim'.stateHistory) > Len(sim.stateHistory)) => sim'.isFinished]_vars

\* the last reference has just been processed and the engine is not Finished
C13_Witness ==
    /\ sim # NoSim
    /\ RunComplete
    /\ cur.lastEvent.type \in {"HIT", "FAULT"}
    /\ ~sim.isFinished

\* C14 as stated: every stepBackward that pops a snapshot clears the Finished
\* flag and leaves the cursor strictly before the end of the references.
C14_UndoBeforeEndAsStated ==
    [][PopStep =>
          /\ ~sim'.isFinished
          /\ sim'.currentState.pageIndex < Len(sim.pageString)]_vars

\* C14 as amended: every stepBackward that pops a snapshot clears the
\* Finished flag; popping the Done snapshot leaves the cursor at the end of
\* the references, popping any other snapshot moves it back by one, strictly
\* before the end.
C14_UndoClearsFinished ==
    [][PopStep =>
          /\ ~sim'.isFinished
          /\ IF sim.isFinished
             THEN /\ sim'.currentState.pageIndex = cur.pageIndex
                  /\ sim'.currentState.pageIndex = Len(sim.pageString)
             ELSE /\ sim'.currentState.pageIndex = cur.pageIndex - 1
                  /\ sim'.currentState.pageIndex < Len(sim.pageString)]_vars

\* the cursor is at the end with the whole run still in the history and the
\* engine not Finished, as after undoing Done
C14_Witness ==
    /\ sim # NoSim
    /\ ~sim.isFinished
    /\ RunComplete
    /\ Len(sim.stateHistory) = Len(sim.pageString) + 1
    /\ hits > 0

\* C15: the history is never empty, and stepBackward with only the initial
\* snapshot in the history changes nothing (frames, cursor, policy state,
\* counters, lastEvent, isFinished and the history).
C15_UndoAtStartIsNoOp ==
    sim # NoSim =>
        /\ Len(sim.stateHistory) >= 1
        /\ Len(sim.stateHistory) = 1 => stepBackward(sim) = sim

\* only the initial snapshot is in the history of an LRU engine with several
\* frames
C15_Witness ==
    /\ sim # NoSim
    /\ Len(sim.stateHistory) = 1
    /\ sim.stateHistory[1] = initState(sim.numFrames)
    /\ cur = sim.stateHistory[1]
    /\ sim.algorithm = "lru"
    /\ sim.numFrames > 1

\* the typed number of frames reads as no integer of 1..8
BadFrameCount(numFrRaw) ==
    isNaN(parseInt(numFrRaw)) \/ parseInt(numFrRaw) \notin 1..8

\* the entries of a typed page string: its pieces that are not blank
Entries(pgStrRaw) == {trim(pgStrRaw[i]) : i \in 1..Len(pgStrRaw)} \ {<<>>}

\* the typed page string has no entry, or an entry that reads as no number
BadPageString(pgStrRaw) ==
    Entries(pgStrRaw) = {} \/ \E e \in Entries(pgStrRaw) : ~isDigit(trimStart(e)[1])

C17_StepAfterFinishedReported ==
    (sim # NoSim /\ sim.isFinished) => stepForwardReturn(sim) # Undefined

\* the step is a successful setup: an engine is created where there was none
SetupStep == sim = NoSim /\ sim' # NoSim

\* C18: immediately after a successful setup every frame slot is empty, the
\* cursor is 0, the FIFO pointer is 0, the LRU recency sequence is empty,
\* hits and faults are 0, the engine is not Finished, the last event is
\* Start, and the history holds exactly one snapshot, equal to this initial
\* state.
C18_StateAfterSetup ==
    [][SetupStep =>
          LET state == sim'.currentState
          IN  /\ Len(state.frames) = sim'.numFrames
              /\ \A i \in 1..Len(state.frames) : state.frames[i] = NULL
              /\ state.pageIndex = 0
              /\ state.fifoPointer = 0
              /\ state.lruQueue = <<>>
              /\ state.stats.pageHits = 0
              /\ state.stats.pageFaults = 0
              /\ ~sim'.isFinished
              /\ state.lastEvent.type = "START"
              /\ Len(sim'.stateHistory) = 1
              /\ sim'.stateHistory[1] = state]_vars

\* an Optimal engine with three frames is in the state its setup left: all
\* slots empty, Start as last event, one snapshot
C18_Witness ==
    /\ sim # NoSim
    /\ sim.algorithm = "optimal"
    /\ sim.numFrames = 3
    /\ cur.frames = <<NULL, NULL, NULL>>
    /\ cur.lastEvent.type = "START"
    /\ Len(sim.stateHistory) = 1
    /\ ~sim.isFinished

\* the page the next stepForward reads
nextPage == currentPageOf(sim)

\* the state a stepForward leaves
afterStep == stepForward(sim).currentState

\* C19: a reference to a page that is not resident, made while at least one
\* slot is empty, is a fault that under every policy puts the page into the
\* lowest-indexed empty slot, changes no other slot, and reports
\* replaced = null.
C19_FaultFillsLowestEmptySlot ==
    (/\ sim # NoSim
     /\ ~RunComplete
     /\ ~includes(cur.frames, nextPage)
     /\ includes(cur.frames, NULL))
    => LET lowestEmpty == SetMin({i \in 0..(Len(cur.frames) - 1) : cur.frames[i + 1] = NULL})
       IN  /\ afterStep.lastEvent.type = "FAULT"
           /\ afterStep.lastEvent.page = nextPage
           /\ afterStep.lastEvent.replaced = NULL
           /\ afterStep.lastEvent.replacedFrameIndex = lowestEmpty
           /\ afterStep.frames = setAt(cur.frames, lowestEmpty, nextPage)
           /\ Resident(afterStep.frames) = Resident(cur.frames) \cup {nextPage}

\* a fault has just filled an empty slot other than the first one
C19_Witness ==
    /\ sim # NoSim
    /\ cur.lastEvent.type = "FAULT"
    /\ cur.lastEvent.replaced = NULL
    /\ cur.lastEvent.replacedFrameIndex >= 1
    /\ cur.frames[cur.lastEvent.replacedFrameIndex + 1] = cur.lastEvent.page

\* the elements of a sequence other than x, in their order
Without(seq, x) == SelectSeq(seq, LAMBDA y : y # x)

\* C20: a reference to a page that is already resident is a Hit that leaves
\* every frame slot and the FIFO pointer unchanged; under LRU the recency
\* sequence changes only in that the page moves to its most-recently-used
\* end, the other pages keeping their relative order, and under FIFO and
\* Optimal the recency sequence does not change.
C20_HitKeepsFramesAndPolicyState ==
    (/\ sim # NoSim
     /\ ~RunComplete
     /\ includes(cur.frames, nextPage))
    => /\ afterStep.lastEvent.type = "HIT"
       /\ afterStep.lastEvent.page = nextPage
       /\ afterStep.frames = cur.frames
       /\ afterStep.fifoPointer = cur.fifoPointer
       /\ IF sim.algorithm = "lru"
          THEN /\ afterStep.lruQueue = Without(cur.lruQueue, nextPage) \o <<nextPage>>
               /\ Len(afterStep.lruQueue) = Len(cur.lruQueue)
          ELSE afterStep.lruQueue = cur.lruQueue

\* an LRU hit has just moved a page that was not the most recently used one
\* to the most-recently-used end
C20_Witness ==
    /\ sim # NoSim
    /\ sim.algorithm = "lru"
    /\ cur.lastEvent.type = "HIT"
    /\ Len(sim.stateHistory) >= 2
    /\ LET before == sim.stateHistory[Len(sim.stateHistory) - 1]
       IN  /\ Len(before.lruQueue) >= 2
           /\ before.lruQueue[Len(before.lruQueue)] # cur.lastEvent.page
           /\ cur.lruQueue[Len(cur.lruQueue)] = cur.lastEvent.page
           /\ cur.frames = before.frames

SetMax(S) == CHOOSE x \in S : \A y \in S : y <= x

\* the references processed so far
ProcessedPrefix == SubSeq(sim.pageString, 1, cur.pageIndex)

\* the (1-based) place of the most recent reference to page among the
\* processed ones, 0 when there is none
LastReference(page) ==
    LET places == {i \in 1..cur.pageIndex : sim.pageString[i] = page}
    IN  IF places = {} THEN 0 ELSE SetMax(places)

\* the next stepForward is a fault with every slot occupied
FaultWithFullFrames ==
    /\ sim # NoSim
    /\ ~RunComplete
    /\ ~includes(cur.frames, nextPage)
    /\ ~includes(cur.frames, NULL)

\* C21: on an LRU fault with all slots full the victim is the first element
\* of the recency sequence, which is resident (the scan skips nothing), and
\* it is the resident page whose most recent reference among the processed
\* ones is the earliest.
C21_LruVictimIsQueueFront ==
    (FaultWithFullFrames /\ sim.algorithm = "lru")
    => LET scanned == lruTouch(cur.lruQueue, nextPage)
           victim == afterStep.lastEvent.replaced
       IN  /\ victim = scanned[1]
           /\ victim = cur.lruQueue[1]
           /\ includes(cur.frames, victim)
           /\ afterStep.lastEvent.replacedFrameIndex = indexOf(cur.frames, victim)
           /\ LastReference(victim) >= 1
           /\ \A q \in Resident(cur.frames) \ {victim} :
                  LastReference(victim) < LastReference(q)

\* an LRU fault has just evicted, from a slot other than the first, the page
\* that had gone longest without a reference
C21_Witness ==
    /\ sim # NoSim
    /\ sim.algorithm = "lru"
    /\ cur.lastEvent.type = "FAULT"
    /\ cur.lastEvent.replaced # NULL
    /\ cur.lastEvent.replacedFrameIndex >= 1
    /\ Len(sim.stateHistory) >= 2
    /\ sim.stateHistory[Len(sim.stateHistory) - 1].lruQueue[1] = cur.lastEvent.replaced

\* the references that follow the one the next stepForward reads
RemainingSuffix == slice(sim.pageString, cur.pageIndex + 1)

\* C22: on an Optimal fault with all slots full where every resident page
\* occurs again in the remaining suffix, the victim is the resident page
\* whose first occurrence in that suffix has the largest index.
C22_OptimalEvictsFurthestUse ==
    (/\ FaultWithFullFrames
     /\ sim.algorithm = "optimal"
     /\ \A q \in Resident(cur.frames) : includes(RemainingSuffix, q))
    => LET victim == afterStep.lastEvent.replaced
       IN  /\ victim \in Resident(cur.frames)
           /\ afterStep.lastEvent.replacedFrameIndex = indexOf(cur.frames, victim)
           /\ \A q \in Resident(cur.frames) \ {victim} :
                  indexOf(RemainingSuffix, q) < indexOf(RemainingSuffix, victim)

\* an Optimal fault has just evicted, from a slot other than the first, a
\* page that is referenced again later, as is the page it left in place
C22_Witness ==
    /\ sim # NoSim
    /\ sim.algorithm = "optimal"
    /\ cur.lastEvent.type = "FAULT"
    /\ cur.lastEvent.replaced # NULL
    /\ cur.lastEvent.replacedFrameIndex >= 1
    /\ LET rest == slice(sim.pageString, cur.pageIndex)
       IN  /\ includes(rest, cur.lastEvent.replaced)
           /\ includes(rest, cur.frames[1])
           /\ indexOf(rest, cur.frames[1]) < indexOf(rest, cur.lastEvent.replaced)

\* C23: a step that faults changes exactly one frame slot: the slot named by
\* the Fault event then holds the referenced page, the event's replaced
\* field is what the slot held before (null for an empty slot), the replaced
\* page is no longer resident, and every other slot is unchanged.
C23_FaultChangesOneSlot ==
    (/\ sim # NoSim
     /\ ~RunComplete
     /\ ~includes(cur.frames, nextPage))
    => LET event == afterStep.lastEvent
           k == event.replacedFrameIndex
       IN  /\ event.type = "FAULT"
           /\ k \in 0..(Len(cur.frames) - 1)
           /\ Len(afterStep.frames) = Len(cur.frames)
           /\ afterStep.frames[k + 1] = nextPage
           /\ event.replaced = cur.frames[k + 1]
           /\ event.replaced # NULL => ~includes(afterStep.frames, event.replaced)
           /\ \A i \in 1..Len(cur.frames) :
                  i # k + 1 => afterStep.frames[i] = cur.frames[i]

\* a fault has just replaced the page of a slot that lies between two other
\* occupied slots
C23_Witness ==
    /\ sim # NoSim
    /\ cur.lastEvent.type = "FAULT"
    /\ cur.lastEvent.replaced # NULL
    /\ cur.lastEvent.replacedFrameIndex = 1
    /\ Len(cur.frames) = 3
    /\ Len(sim.stateHistory) >= 2
    /\ LET before == sim.stateHistory[Len(sim.stateHistory) - 1]
       IN  /\ before.frames[2] = cur.lastEvent.replaced
           /\ cur.frames = [before.frames EXCEPT ![2] = cur.lastEvent.page]

\* C24: a stepForward made with the cursor at the end of the references and
\* the engine not yet Finished sets Finished and the Done event, and leaves
\* frames, cursor, FIFO pointer, LRU recency sequence and both counters as
\* they were.
C24_DoneStepKeepsState ==
    (sim # NoSim /\ RunComplete /\ ~sim.isFinished)
    => LET next == stepForward(sim)
       IN  /\ next.isFinished
           /\ next.currentState.lastEvent = doneEvent
           /\ Core(next.currentState) = Core(cur)

\* Done has just been emitted after a run with hits and faults, and the
\* snapshot below the Done one has the same frames, cursor, policy state
\* and counters
C24_Witness ==
    /\ sim # NoSim
    /\ sim.isFinished
    /\ cur.lastEvent.type = "DONE"
    /\ hits > 0
    /\ faults > 1
    /\ Len(sim.stateHistory) >= 2
    /\ Core(sim.stateHistory[Len(sim.stateHistory) - 1]) = Core(cur)

\* C25: in every reachable state, a Finished engine has its cursor at the
\* length of the reference sequence and Done as its last event; a Done
\* snapshot is in the history only as its top element and only while the
\* engine is Finished.
C25_FinishedMeansDoneAtEnd ==
    sim # NoSim =>
        /\ sim.isFinished => (cur.pageIndex = Len(sim.pageString) /\ cur.lastEvent = doneEvent)
        /\ \A i \in 1..Len(sim.stateHistory) :
               sim.stateHistory[i].lastEvent.type = "DONE"
                   => (i = Len(sim.stateHistory) /\ sim.isFinished)

\* a FIFO engine is Finished: its cursor is at the end of at least three
\* references and the Done snapshot lies on top of the snapshots of the
\* processed references
C25_Witness ==
    /\ sim # NoSim
    /\ sim.algorithm = "fifo"
    /\ sim.isFinished
    /\ cur.pageIndex = Len(sim.pageString)
    /\ Len(sim.pageString) >= 3
    /\ sim.stateHistory[Len(sim.stateHistory)].lastEvent.type = "DONE"
    /\ sim.stateHistory[Len(sim.stateHistory) - 1].lastEvent.type \in {"HIT", "FAULT"}

\* C26: in every reachable state the frame set has exactly the frame count
\* given at setup, and every slot is empty or holds a page id that occurs
\* among the already processed references.
C26_FramesHoldProcessedPages ==
    sim # NoSim =>
        /\ Len(cur.frames) = sim.numFrames
        /\ \A i \in 1..Len(cur.frames) :
               \/ cur.frames[i] = NULL
               \/ includes(ProcessedPrefix, cur.frames[i])

\* every slot of a two-frame engine is occupied while a page that has not
\* been referenced yet is still to come
C26_Witness ==
    /\ sim # NoSim
    /\ sim.numFrames = 2
    /\ ~includes(cur.frames, NULL)
    /\ ~RunComplete
    /\ ~includes(ProcessedPrefix, nextPage)

\* C27: in every reachable state the most recent snapshot of the history
\* equals the current state in frames, cursor, policy state, last event and
\* statistics, and is a copy of it, not the same object.
C27_TopSnapshotIsCurrentState ==
    sim # NoSim =>
        /\ Len(sim.stateHistory) >= 1
        /\ LET top == sim.stateHistory[Len(sim.stateHistory)]
           IN  /\ top.frames = cur.frames
               /\ top.pageIndex = cur.pageIndex
               /\ top.fifoPointer = cur.fifoPointer
               /\ top.lruQueue = cur.lruQueue
               /\ top.lastEvent = cur.lastEvent
               /\ top.stats = cur.stats
        /\ Len(sim.stateHistory) \notin sim.sharedWith

\* an LRU engine has processed several references, the last one a hit, and
\* the top snapshot shows that hit and the recency sequence it left
C27_Witness ==
    /\ sim # NoSim
    /\ sim.algorithm = "lru"
    /\ Len(sim.stateHistory) >= 3
    /\ cur.lastEvent.type = "HIT"
    /\ Len(cur.lruQueue) >= 2
    /\ sim.stateHistory[Len(sim.stateHistory)].lastEvent.type = "HIT"
    /\ sim.stateHistory[Len(sim.stateHistory)].lruQueue = cur.lruQueue

\* C28: in every reachable state the history has cursor + 1 snapshots when
\* the engine is not Finished and cursor + 2 when it is, and for every i from
\* 0 to the cursor the i-th snapshot (counted from 0) has cursor i.
C28_HistoryLengthFollowsCursor ==
    sim # NoSim =>
        /\ Len(sim.stateHistory) = cur.pageIndex + (IF sim.isFinished THEN 2 ELSE 1)
        /\ \A i \in 0..cur.pageIndex : sim.stateHistory[i + 1].pageIndex = i

\* an Optimal engine is Finished after two or more references: the history
\* holds one snapshot per cursor value and the Done snapshot
C28_Witness ==
    /\ sim # NoSim
    /\ sim.algorithm = "optimal"
    /\ sim.isFinished
    /\ cur.pageIndex >= 2
    /\ Len(sim.stateHistory) = cur.pageIndex + 2
    /\ sim.stateHistory[cur.pageIndex + 1].pageIndex = cur.pageIndex
    /\ sim.stateHistory[cur.pageIndex + 2].pageIndex = cur.pageIndex

\* C29: in every reachable state and under every policy, no page id
\* occupies two frame slots at the same time.
C29_NoPageInTwoSlots ==
    sim # NoSim =>
        \A i, j \in 1..Len(cur.frames) :
            (cur.frames[i] # NULL /\ cur.frames[i] = cur.frames[j]) => i = j

\* three different pages occupy the three slots of an engine that has also
\* had a hit
C29_Witness ==
    /\ sim # NoSim
    /\ Len(cur.frames) = 3
    /\ Cardinality(Resident(cur.frames)) = 3
    /\ hits >= 1

\* the number of slots that hold a page
Occupied(frames) == Cardinality({i \in 1..Len(frames) : frames[i] # NULL})

\* the different pages among the processed references
DistinctProcessed == {sim.pageString[i] : i \in 1..cur.pageIndex}

Min(a, b) == IF a <= b THEN a ELSE b

\* C30: in every reachable state and under every policy, the number of
\* non-empty slots is the smaller of the frame count and the number of
\* distinct pages among the processed references, no empty slot lies below
\* a filled one, and a forward step never empties a filled slot.
C30_SlotsFillFromTheBottom ==
    sim # NoSim =>
        /\ Occupied(cur.frames) = Min(sim.numFrames, Cardinality(DistinctProcessed))
        /\ \A i \in 1..Len(cur.frames) :
               cur.frames[i] = NULL
                   => \A j \in (i + 1)..Len(cur.frames) : cur.frames[j] = NULL
        /\ \A i \in 1..Len(cur.frames) :
               cur.frames[i] # NULL => afterStep.frames[i] # NULL

\* two of three slots are filled, the third is empty, after three references
\* to two different pages
C30_Witness ==
    /\ sim # NoSim
    /\ sim.numFrames = 3
    /\ cur.pageIndex = 3
    /\ Cardinality(DistinctProcessed) = 2
    /\ cur.frames[1] # NULL
    /\ cur.frames[2] # NULL
    /\ cur.frames[3] = NULL

\* the place in the history of the snapshot whose fault loaded the resident
\* page: the most recent Fault snapshot for that page (0 when there is none)
LoadedAt(page) ==
    LET places == {i \in 1..Len(sim.stateHistory) :
                      /\ sim.stateHistory[i].lastEvent.type = "FAULT"
                      /\ sim.stateHistory[i].lastEvent.page = page}
    IN  IF places = {} THEN 0 ELSE SetMax(places)

\* C31: on a FIFO fault with all slots full the page evicted at the rotating
\* pointer is the resident page that was loaded earliest, whatever hits and
\* faults came before: it is the page a queue of load order would evict.
C31_FifoEvictsLongestResident ==
    (FaultWithFullFrames /\ sim.algorithm = "fifo")
    => LET victim == afterStep.lastEvent.replaced
       IN  /\ victim = cur.frames[cur.fifoPointer + 1]
           /\ afterStep.lastEvent.replacedFrameIndex = cur.fifoPointer
           /\ LoadedAt(victim) >= 1
           /\ \A q \in Resident(cur.frames) \ {victim} : LoadedAt(victim) < LoadedAt(q)

\* after a run with a hit, a FIFO fault has just evicted a page from a slot
\* other than the first
C31_Witness ==
    /\ sim # NoSim
    /\ sim.algorithm = "fifo"
    /\ cur.lastEvent.type = "FAULT"
    /\ cur.lastEvent.replaced # NULL
    /\ cur.lastEvent.replacedFrameIndex >= 1
    /\ hits >= 1
    /\ cur.fifoPointer = (cur.lastEvent.replacedFrameIndex + 1) % Len(cur.frames)

\* the engine after stepForward has been called until every reference is
\* processed
RECURSIVE RunToEnd(_)
RunToEnd(this) ==
    IF this.currentState.pageIndex >= Len(this.pageString)
    THEN this
    ELSE RunToEnd(stepForward(this))

\* the faults of a complete run of algo on the engine's frame count and
\* reference sequence
CompleteRunFaults(algo) ==
    RunToEnd(SimulationController(algo, sim.numFrames, sim.pageString))
        .currentState.stats.pageFaults

\* C32: for every frame count and reference sequence an engine is set up
\* with, a complete Optimal run has no more faults than a complete FIFO run
\* and than a complete LRU run on the same input.
C32_OptimalHasFewestFaults ==
    sim # NoSim =>
        /\ CompleteRunFaults("optimal") <= CompleteRunFaults("fifo")
        /\ CompleteRunFaults("optimal") <= CompleteRunFaults("lru")

\* an Optimal run is complete on an input on which it has fewer faults than
\* the FIFO run, and its counter is the one the comparison uses
C32_Witness ==
    /\ sim # NoSim
    /\ sim.algorithm = "optimal"
    /\ RunComplete
    /\ faults = CompleteRunFaults("optimal")
    /\ faults < CompleteRunFaults("fifo")
    /\ faults <= CompleteRunFaults("lru")

\* the engine after a stepBackward followed at once by a stepForward
Replayed == stepForward(stepBackward(sim))

\* C33: in every reachable state whose history holds more than one snapshot,
\* a stepBackward followed at once by a stepForward gives back the state
\* before the stepBackward: frames, cursor, policy state, counters, last
\* event, Finished flag and the history.
C33_UndoThenRedoRestores ==
    (sim # NoSim /\ Len(sim.stateHistory) > 1)
    => /\ Replayed.currentState = cur
       /\ Replayed.isFinished = sim.isFinished
       /\ Len(Replayed.stateHistory) = Len(sim.stateHistory)
       /\ Replayed.stateHistory = sim.stateHistory

\* an LRU engine whose last step was a fault that evicted a page, and whose
\* undo and replay evicts the same page again
C33_Witness ==
    /\ sim # NoSim
    /\ sim.algorithm = "lru"
    /\ Len(sim.stateHistory) > 1
    /\ cur.lastEvent.type = "FAULT"
    /\ cur.lastEvent.replaced # NULL
    /\ stepBackward(sim).currentState.pageIndex = cur.pageIndex - 1
    /\ Replayed.currentState.lastEvent = cur.lastEvent

\* the engine after n calls of stepForward
RECURSIVE StepForwardTimes(_, _)
StepForwardTimes(this, n) ==
    IF n = 0 THEN this ELSE StepForwardTimes(stepForward(this), n - 1)

\* auto-play is on
Playing == sim # NoSim /\ isPlaying

\* C34: with auto-play on and no other user action, a tick steps the engine
\* forward only while it is not Finished; length - cursor + 1 forward steps,
\* and no fewer, make the engine Finished; the tick that finds it Finished
\* turns auto-play off and leaves the engine alone; a Finished engine is
\* changed only by an undo or a reset, never by a forward step of the loop
\* or of the Step Forward button; and auto-play always comes to that end.
C34_AutoPlayRunsToTheEndAndStops ==
    /\ [](Playing /\ ~sim.isFinished
            => LET left == Len(sim.pageString) - cur.pageIndex
               IN  /\ ~StepForwardTimes(sim, left).isFinished
                   /\ StepForwardTimes(sim, left + 1).isFinished)
    /\ [][(Playing /\ ~sim.isFinished) => (sim' = stepForward(sim) /\ isPlaying')]_vars
    /\ [][(Playing /\ sim.isFinished) => (sim' = sim /\ ~isPlaying')]_vars
    /\ [][(sim # NoSim /\ sim.isFinished /\ sim' # sim)
             => (sim' = NoSim \/ sim' = stepBackward(sim))]_vars
    /\ (Playing ~> (sim # NoSim /\ sim.isFinished /\ ~isPlaying))

\* auto-play is on and the engine, run to the end of three or more
\* references, is Finished: the next tick turns auto-play off
C34_Witness ==
    /\ Playing
    /\ sim.isFinished
    /\ cur.lastEvent.type = "DONE"
    /\ cur.pageIndex >= 3

\* C35: whenever the last event is a Fault that evicted a page, the status
\* text built by the UI names the replaced page, page 0 included; the
\* replaced part is left out only when the slot was empty.
C35_StatusNamesReplacedPage ==
    (sim # NoSim /\ cur.lastEvent.type = "FAULT")
    => eventStatus(cur.lastEvent).replaced = cur.lastEvent.replaced

=============================================================================
